---- MODULE Spec2Model ----
(***************************************************************************)
(* A model of jaxtyping/_decorator.py: the thread-local stack of binding   *)
(* contexts (storage.memo_stack), the jaxtyped decorator for functions,    *)
(* classes and the builtin descriptors, the wrapper it produces, and the   *)
(* dataclass field verifier installed by _jaxtyped_typechecker.            *)
(*                                                                         *)
(* Python objects are modelled by value: function objects live in the heap *)
(* fns (an id is an index), every thread has a call stack frames[t] of     *)
(* activation records, and ret[t] is the outcome (a returned value or a    *)
(* raised error) that the callee which has just finished hands to the      *)
(* frame now on top.                                                       *)
(***************************************************************************)
EXTENDS Integers, Sequences, FiniteSets, TLC

VARIABLES
    fns,            \* the heap of function objects, by id
    jaxtyped_fns,   \* _jaxtyped_fns: ids of the wrapped_fn objects produced
    globals,        \* module namespace: the function a name is bound to
    cls_init,       \* kls.__dict__["__init__"] of every class
    storage,        \* threading.local(): per thread, whether memo_stack
                    \* exists and the list itself
    pushedBy,       \* history: for each slot of storage, the thread that
                    \* created the list and the threads that pushed the
                    \* contexts now on it
    frames,         \* per thread, the Python call stack
    ret,            \* per thread, the outcome in flight to the top frame
    exited,         \* history: the frame whose exit produced ret
    objs,           \* per thread, the instances constructed by the current
                    \* top-level call, with their verification history
    applied,        \* history: how often jaxtyped was applied to a name
    annotations,    \* kls.__annotations__ of every class
    hook,           \* the typechecker the import hook decorates classes with
    attrs           \* K.__dict__: the descriptor bound to each name of the
                    \* class body of K, with (history) the descriptor the
                    \* body defined and how often jaxtyped was applied to it

vars == <<fns, jaxtyped_fns, globals, cls_init, storage, pushedBy,
          frames, ret, exited, objs, applied, annotations, hook, attrs>>

----------------------------------------------------------------------------
(* Bounds of the model *)

\* sizes an axis can take
MaxSize == 2
\* deepest nesting of calls made by user code (wrappers' own calls are not
\* counted: their depth is fixed by the decorations)
MaxDepth == 2
\* how many times the decorators are applied to one class
MaxDeco == 2
\* how many isinstance results the body of a function keeps
MaxTests == 3

Threads == {"t1", "t2"}
MainThread == "t1"
AxisNames == {"n"}
Sizes == 1 .. MaxSize
FnNames == {"f", "g"}
Classes == {"A", "B"}
Values == {"v"}
Errors == {"e"}

----------------------------------------------------------------------------
(* Outcomes of a call *)

NoRet == [kind |-> "none", val |-> "none"]
Returned(v) == [kind |-> "return", val |-> v]
Raised(e) == [kind |-> "raise", val |-> e]

----------------------------------------------------------------------------
(* Binding contexts: memo_stack.append(({}, {}, {})) *)

EmptyDict == [a \in {} |-> 0]
EmptyCtx == <<EmptyDict, EmptyDict, EmptyDict>>

Last(s) == s[Len(s)]
Front(s) == SubSeq(s, 1, Len(s) - 1)

----------------------------------------------------------------------------
(* Function objects.  Every object of the heap is a types.FunctionType:    *)
(*   "function"    a function written by the user or by this module (def), *)
(*   "wrapped_fn"  the closure jaxtyped returns, over fn,                  *)
(*   "__init__"    the closure _jaxtyped_typechecker installs, over init,  *)
(*                 kls and typechecker.                                    *)

Def(name) ==
    [kind |-> "function", name |-> name, fn |-> 0, kls |-> "none",
     typechecker |-> "none"]
WrappedFn(h, fn) ==
    [kind |-> "wrapped_fn", name |-> h[fn].name, fn |-> fn, kls |-> "none",
     typechecker |-> "none"]
InitWrapper(h, init, kls, typechecker) ==
    [kind |-> "__init__", name |-> h[init].name, fn |-> init, kls |-> kls,
     typechecker |-> typechecker]

\* the functions the module and the user program define, in definition order
Defined ==
    <<Def("f"), Def("g"), Def("A.__init__"), Def("B.__init__"),
      Def("P.__init__"), Def("_check_dataclass_annotations")>>

IdOf(h, name) == CHOOSE i \in 1 .. Len(h) : h[i] = Def(name)

\* number of wrapper layers around the def at the bottom of x
RECURSIVE Layers(_, _)
Layers(h, x) == IF h[x].kind = "function" THEN 0 ELSE 1 + Layers(h, h[x].fn)

----------------------------------------------------------------------------
(* jaxtyped(fn) for a function object *)

\* faulty variant: the idempotence guard is missing
NeverRegistered(reg, fn) == FALSE

\* type(fn) is types.FunctionType and fn in _jaxtyped_fns
AlreadyJaxtyped(reg, fn) == fn \in reg

\* the result of jaxtyped(fn): the heap, the registry and the returned object
Jaxtyped(h, reg, fn) ==
    IF AlreadyJaxtyped(reg, fn)
    THEN [fns |-> h, reg |-> reg, res |-> fn]
    ELSE [fns |-> Append(h, WrappedFn(h, fn)),
          reg |-> reg \cup {Len(h) + 1},
          res |-> Len(h) + 1]

\* faulty variant: _check_dataclass_annotations is left undecorated
ImportUndecorated ==
    [fns |-> Defined, reg |-> {},
     res |-> IdOf(Defined, "_check_dataclass_annotations")]

\* the module's own use of the decorator: @jaxtyped def _check_dataclass_annotations
ModuleImport == Jaxtyped(Defined, {}, IdOf(Defined, "_check_dataclass_annotations"))

----------------------------------------------------------------------------
(* jaxtyped(fn) for the builtin descriptors.  The class K of the user      *)
(* program binds cm to classmethod(f), sm to staticmethod(g), and p to a   *)
(* property whose getter is f or None and whose setter and deleter are g   *)
(* or None (None is 0).                                                    *)

Descriptors == <<"cm", "sm", "p">>
DescriptorNames == {Descriptors[i] : i \in 1 .. Len(Descriptors)}

Classmethod(func) ==
    [kind |-> "classmethod", func |-> func, fget |-> 0, fset |-> 0, fdel |-> 0]
Staticmethod(func) ==
    [kind |-> "staticmethod", func |-> func, fget |-> 0, fset |-> 0, fdel |-> 0]
Property(fget, fset, fdel) ==
    [kind |-> "property", func |-> 0, fget |-> fget, fset |-> fset, fdel |-> fdel]

\* the functions a descriptor of the given kind can hold
Constituents(kind) ==
    IF kind = "property" THEN {"fget", "fset", "fdel"} ELSE {"func"}

\* faulty variant: the accessor is lost, None is passed to property()
DroppedAccessor(h, reg, fn) == [fns |-> h, reg |-> reg, res |-> 0]

\* if fn.fget is None: fget = None / else: fget = jaxtyped(fn.fget)
Accessor(h, reg, fn) ==
    IF fn = 0 THEN [fns |-> h, reg |-> reg, res |-> 0] ELSE Jaxtyped(h, reg, fn)

\* the result of jaxtyped(d) for a classmethod, a staticmethod or a property
JaxtypedDescriptor(h, reg, d) ==
    IF d.kind = "classmethod"
    THEN LET r == Jaxtyped(h, reg, d.func) IN
         [fns |-> r.fns, reg |-> r.reg, res |-> Classmethod(r.res)]
    ELSE IF d.kind = "staticmethod"
    THEN LET r == Jaxtyped(h, reg, d.func) IN
         [fns |-> r.fns, reg |-> r.reg, res |-> Staticmethod(r.res)]
    ELSE LET g == Accessor(h, reg, d.fget)
             s == Accessor(g.fns, g.reg, d.fset)
             x == Accessor(s.fns, s.reg, d.fdel)
         IN [fns |-> x.fns, reg |-> x.reg, res |-> Property(g.res, s.res, x.res)]

\* the class bodies a program can write
ClassBody(fget, fset, fdel) ==
    [d \in DescriptorNames |->
        IF d = "cm" THEN Classmethod(IdOf(Defined, "f"))
        ELSE IF d = "sm" THEN Staticmethod(IdOf(Defined, "g"))
        ELSE Property(fget, fset, fdel)]
ClassBodies ==
    {ClassBody(fget, fset, fdel) :
        fget \in {0, IdOf(Defined, "f")},
        fset \in {0, IdOf(Defined, "g")},
        fdel \in {0, IdOf(Defined, "g")}}

\* K.__dict__ after the class statement has run the body
ClassDict(body) ==
    [d \in DescriptorNames |-> [cur |-> body[d], def |-> body[d], applied |-> 0]]

\* a class K whose property has a getter only
GetterOnly == ClassDict(ClassBody(IdOf(Defined, "f"), 0, 0))

----------------------------------------------------------------------------
(* The user program's dataclasses: A with field x, and B(A) adding field y *)
(* with a hand-written __init__ that calls A's and then sets y.  P is a    *)
(* class with an __init__ that is not a dataclass.                         *)

PlainClasses == {"P"}

\* faulty variant: the class is not tested
AnyClass(c) == TRUE

\* dataclasses.is_dataclass(fn)
IsDataclass(c) == c \in Classes

Mro(c) == IF c = "B" THEN <<"B", "A", "object">> ELSE <<c, "object">>

\* dataclasses.fields(self): the fields of the bases first
Fields(c) == IF c = "B" THEN <<"x", "y">> ELSE <<"x">>
OwnFields(c) == IF c = "B" THEN {"y"} ELSE {"x"}

\* annotations: Float[Array, "a"], a string such as "Foo", type[...] with
\* the given arguments (each a string or a class), and int
Shape(a) == [kind |-> "shape", axis |-> a, args |-> <<>>]
Stringified == [kind |-> "str", axis |-> "none", args |-> <<>>]
TypeOf(args) == [kind |-> "type", axis |-> "none", args |-> args]
TypeOfString == TypeOf(<<"str">>)
PlainInt == [kind |-> "int", axis |-> "none", args |-> <<>>]
FieldAnnotations ==
    {Shape(a) : a \in AxisNames}
        \cup {Stringified, TypeOfString, TypeOf(<<"class">>),
              TypeOf(<<"str", "str">>), PlainInt}

\* the annotations a program can declare for the two fields
Programs ==
    {[c \in Classes |-> [f \in OwnFields(c) |-> IF c = "A" THEN ax ELSE ay]] :
        ax \in FieldAnnotations, ay \in FieldAnnotations}

\* kls.__annotations__ in general: B may declare x again, and an entry may
\* have been deleted from the mapping after the dataclass was created
Partial(S, T) == UNION {[D -> T] : D \in SUBSET S}
Declarations ==
    {[c \in Classes |-> IF c = "A" THEN a ELSE b] :
        a \in Partial({"x"}, FieldAnnotations),
        b \in Partial({"x", "y"}, FieldAnnotations)}

ArrayOf(s) == [kind |-> "array", size |-> s]
IntValue == [kind |-> "int", size |-> 0]
FieldValues == {ArrayOf(s) : s \in Sizes} \cup {IntValue}

\* a new instance of class c: nothing assigned, nothing verified
NewInstance(c) ==
    [cls |-> c, dict |-> [f \in {} |-> IntValue], inited |-> {}, passes |-> 0,
     visited |-> <<>>, used |-> <<>>, checked |-> <<>>, done |-> "no"]

\* kls.__init__: the first __init__ along the __mro__ (0: object's)
RECURSIVE LookupFrom(_, _, _)
LookupFrom(ci, mro, i) ==
    IF i > Len(mro) \/ mro[i] = "object" THEN 0
    ELSE IF ci[mro[i]] # 0 THEN ci[mro[i]]
    ELSE LookupFrom(ci, mro, i + 1)
LookupInit(ci, c) == LookupFrom(ci, Mro(c), 1)

\* for kls in self.__class__.__mro__: annotation = kls.__annotations__[name]
\* (KeyError: next class; object has no __annotations__: AttributeError)
RECURSIVE ResolveFrom(_, _, _, _)
ResolveFrom(anns, mro, i, name) ==
    IF i > Len(mro) THEN [error |-> "TypeError", annotation |-> Stringified]
    ELSE IF mro[i] = "object"
    THEN [error |-> "AttributeError", annotation |-> Stringified]
    ELSE IF name \in DOMAIN anns[mro[i]]
    THEN [error |-> "none", annotation |-> anns[mro[i]][name]]
    ELSE ResolveFrom(anns, mro, i + 1, name)

\* faulty variant: annotation = self.__class__.__annotations__[field.name]
OwnAnnotation(anns, c, name) ==
    IF name \in DOMAIN anns[c]
    THEN [error |-> "none", annotation |-> anns[c][name]]
    ELSE [error |-> "KeyError", annotation |-> Stringified]

ResolveAnnotation(anns, c, name) == ResolveFrom(anns, Mro(c), 1, name)

\* faulty variant: type["Foo"] is not special-cased
OnlyStrings(annotation) == annotation.kind = "str"

\* isinstance(annotation, str), or get_origin(annotation) is type and
\* len(args) == 1 and isinstance(args[0], str)
Unresolvable(annotation) ==
    \/ annotation.kind = "str"
    \/ /\ annotation.kind = "type"
       /\ Len(annotation.args) = 1
       /\ annotation.args[1] = "str"

----------------------------------------------------------------------------
(* storage = threading.local(): attribute lookups on it resolve in the     *)
(* namespace of the calling thread.                                        *)

\* faulty variant: one namespace shared by all threads (a module-level list)
SharedSlot(t) == MainThread

Slot(t) == t

NoStack == [has |-> FALSE, memo_stack |-> <<>>]
NobodyPushed == [created |-> "none", pushed |-> <<>>]

MemoStack(t) == storage[Slot(t)].memo_stack
Depth(t) == Len(MemoStack(t))

\* faulty variant: the new context starts as a copy of the one below it
InheritedContext(stack) == IF stack = <<>> THEN EmptyCtx ELSE Last(stack)

\* the triple appended at wrapped_fn entry
NewContext(stack) == EmptyCtx

\* faulty variant: the pop is skipped when the body raised (no try/finally)
PopOnReturnOnly(stack, outcome) ==
    IF outcome.kind = "raise" THEN stack ELSE Front(stack)

\* faulty variant: memo_stack.pop(0)
PopBottom(stack, outcome) == Tail(stack)

\* faulty variant: memo_stack.clear()
ClearOnExit(stack, outcome) == <<>>

\* finally: memo_stack.pop(), whatever the outcome of fn
PopOnExit(stack, outcome) == Front(stack)

\* faulty variant: except Exception: return None
Swallowed(outcome) ==
    IF outcome.kind = "raise" THEN Returned("None") ELSE outcome

\* return fn(*args, **kwargs): the value is handed on, an error propagates
WrappedOutcome(outcome) == outcome

----------------------------------------------------------------------------
(* The shape check an isinstance against an annotation with axis name a    *)
(* performs for a value whose axis has size s: it consults and writes the  *)
(* first mapping of the context on top of the calling thread's stack.      *)

ShapeCheck(ctx, a, s) ==
    IF a \in DOMAIN ctx[1]
    THEN [ok |-> ctx[1][a] = s, ctx |-> ctx]
    ELSE [ok |-> TRUE,
          ctx |-> <<[x \in DOMAIN ctx[1] \cup {a} |->
                        IF x = a THEN s ELSE ctx[1][x]],
                    ctx[2], ctx[3]>>]

\* the stack after a check made with the stack as it is
Checked(stack, a, s) ==
    IF stack = <<>>
    THEN [ok |-> TRUE, stack |-> stack]
    ELSE [ok |-> ShapeCheck(Last(stack), a, s).ok,
          stack |-> Append(Front(stack), ShapeCheck(Last(stack), a, s).ctx)]

\* A check against an annotation with several axes, such as
\* Float[Array, "n m"], takes the axes in order; dims lists each axis name
\* with the size the value has there.
RECURSIVE TryAll(_, _)
TryAll(ctx, dims) ==
    IF dims = <<>> THEN [ok |-> TRUE, ctx |-> ctx]
    ELSE LET r == ShapeCheck(ctx, Head(dims).axis, Head(dims).size) IN
         IF r.ok THEN TryAll(r.ctx, Tail(dims)) ELSE r

\* faulty variant: the sizes bound before the axis that failed are kept
Residue(ctx, dims) == TryAll(ctx, dims)

\* only a check that passes keeps what it bound
MultiCheck(ctx, dims) ==
    IF TryAll(ctx, dims).ok THEN TryAll(ctx, dims) ELSE [ok |-> FALSE, ctx |-> ctx]

\* the stack after such a check made with the stack as it is
CheckedAll(stack, dims) ==
    IF stack = <<>>
    THEN [ok |-> TRUE, stack |-> stack]
    ELSE [ok |-> MultiCheck(Last(stack), dims).ok,
          stack |-> Append(Front(stack), MultiCheck(Last(stack), dims).ctx)]

\* the annotations the body of f tests values against, with the sizes of
\* the value tested: "n", "m" and "n m"
TestAxes == {"n", "m"}
Dim(a, s) == [axis |-> a, size |-> s]
Tested ==
    {<<Dim(a, s)>> : a \in TestAxes, s \in Sizes}
        \cup {<<Dim("n", s1), Dim("m", s2)>> : s1 \in Sizes, s2 \in Sizes}

----------------------------------------------------------------------------
(* Activation records *)

NoFrame == [fid |-> 0, saved |-> <<>>, got |-> NoRet]

\* a call of function object fid: self is the instance passed (0: none),
\* typechecker the capability passed ("none": not passed), ctor tells that
\* the call is the one made by the constructor expression kls(...), tests
\* are the results of isinstance the body has stored in its local variables
Frame(fid, self, typechecker, ctor, stack) ==
    [fid |-> fid, pc |-> "entry", self |-> self, typechecker |-> typechecker,
     ctor |-> ctor, i |-> 1, saved |-> stack, tests |-> <<>>]

Idle(t) == frames[t] = <<>>
Top(t) == Last(frames[t])
TopKind(t) == fns[Top(t).fid].kind
TopName(t) == fns[Top(t).fid].name
Running(t, kind) == ~Idle(t) /\ TopKind(t) = kind

Push(t, fr) == [frames EXCEPT ![t] = Append(@, fr)]
Goto(t, pc) == [frames EXCEPT ![t][Len(frames[t])].pc = pc]
PushAt(t, pc, fr) ==
    [frames EXCEPT ![t] = Append([@ EXCEPT ![Len(frames[t])].pc = pc], fr)]
Pop(t) == [frames EXCEPT ![t] = Front(@)]

\* what the exit of the top frame leaves behind for the history
Exit(t) == [fid |-> Top(t).fid, saved |-> Top(t).saved, got |-> ret[t]]

\* the instance the top frame was called with
Self(t) == objs[t][Top(t).self]

\* the instances after the exit of the top frame with the given outcome: the
\* history of an instance records how the call made by its constructor ended
Finished(t, outcome) ==
    IF Top(t).ctor
    THEN [objs EXCEPT ![t][Top(t).self].done = outcome.kind]
    ELSE objs

IsUserBody(t) == Running(t, "function") /\ TopName(t) \in FnNames
UserDepth(t) ==
    Cardinality({i \in 1 .. Len(frames[t]) :
        fns[frames[t][i].fid].kind = "function"
        /\ fns[frames[t][i].fid].name \in FnNames})

\* user code is in a position to act: at top level, or in a body that is
\* not waiting for the outcome of a call
AtTopLevel(t) == Idle(t)
InBody(t) == IsUserBody(t) /\ ret[t] = NoRet

----------------------------------------------------------------------------
(* The state after the module and the user program have been imported *)

Imported ==
    /\ fns = ModuleImport.fns
    /\ jaxtyped_fns = ModuleImport.reg
    /\ globals = [n \in FnNames \cup {"_check_dataclass_annotations"} |->
                    IF n \in FnNames THEN IdOf(Defined, n) ELSE ModuleImport.res]
    /\ cls_init = [c \in Classes \cup PlainClasses |->
                        IdOf(Defined, c \o ".__init__")]
    /\ storage = [t \in Threads |-> NoStack]
    /\ pushedBy = [t \in Threads |-> NobodyPushed]
    /\ frames = [t \in Threads |-> <<>>]
    /\ ret = [t \in Threads |-> NoRet]
    /\ exited = [t \in Threads |-> NoFrame]
    /\ objs = [t \in Threads |-> <<>>]
    /\ applied = [n \in FnNames |-> 0]

\* a program whose two fields share the axis name n
SharedAxis == [c \in Classes |-> [f \in OwnFields(c) |-> Shape("n")]]

\* typechecker: beartype.beartype (or typeguard.typechecked), or None
TypeCheckers == {"beartype", "None"}

Init ==
    Imported /\ annotations = SharedAxis /\ hook = "beartype" /\ attrs = GetterOnly

\* the same program, with either typechecker given to the import hook
InitRecord ==
    Imported /\ annotations = SharedAxis /\ hook \in TypeCheckers /\ attrs = GetterOnly

Quiescent == \A t \in Threads : Idle(t)

\* Decorators are applied where the decorated thing is defined, so in the
\* order of the definitions: f and g, then class A, then class B(A).
Undecorated(c) == cls_init[c] = IdOf(Defined, c \o ".__init__")
InOrder(c) == c = "A" => Undecorated("B")

\* the outcomes and instances of the finished top-level calls are dropped
Forget ==
    /\ ret' = [t \in Threads |-> NoRet]
    /\ exited' = [t \in Threads |-> NoFrame]
    /\ objs' = [t \in Threads |-> <<>>]

----------------------------------------------------------------------------
(* Decoration of a module-level function: n = jaxtyped(n) *)

DecorateFunction(n) ==
    /\ Quiescent
    /\ \A c \in Classes : Undecorated(c)
    /\ applied[n] < MaxDeco
    /\ LET r == Jaxtyped(fns, jaxtyped_fns, globals[n]) IN
        /\ fns' = r.fns
        /\ jaxtyped_fns' = r.reg
        /\ globals' = [globals EXCEPT ![n] = r.res]
    /\ applied' = [applied EXCEPT ![n] = @ + 1]
    /\ Forget
    /\ UNCHANGED <<cls_init, storage, pushedBy, frames, annotations, hook, attrs>>

----------------------------------------------------------------------------
(* Decoration of a descriptor in the body of class K: d = jaxtyped(d).     *)
(* Decorators are applied where a name is defined, so in the order of the  *)
(* class body.                                                             *)

DecorateDescriptor(k) ==
    /\ Quiescent
    /\ attrs[Descriptors[k]].applied < MaxDeco
    /\ \A j \in k + 1 .. Len(Descriptors) : attrs[Descriptors[j]].applied = 0
    /\ LET r == JaxtypedDescriptor(fns, jaxtyped_fns, attrs[Descriptors[k]].cur) IN
        /\ fns' = r.fns
        /\ jaxtyped_fns' = r.reg
        /\ attrs' = [attrs EXCEPT ![Descriptors[k]].cur = r.res,
                                  ![Descriptors[k]].applied = @ + 1]
    /\ Forget
    /\ UNCHANGED <<globals, cls_init, storage, pushedBy, frames, applied,
                   annotations, hook>>

\* K.cm(), K.sm(), K().p, K().p = v, del K().p at top level: the descriptor
\* calls the function it holds; a property without the accessor raises
\* AttributeError
Invoke(t, d, a) ==
    /\ AtTopLevel(t)
    /\ a \in Constituents(attrs[d].cur.kind)
    /\ IF attrs[d].cur[a] = 0
       THEN /\ ret' = [ret EXCEPT ![t] = Raised("AttributeError")]
            /\ UNCHANGED frames
       ELSE /\ ret' = [ret EXCEPT ![t] = NoRet]
            /\ frames' = Push(t, Frame(attrs[d].cur[a], 0, "none", FALSE, MemoStack(t)))
    /\ exited' = [exited EXCEPT ![t] = NoFrame]
    /\ objs' = [objs EXCEPT ![t] = <<>>]
    /\ UNCHANGED <<fns, jaxtyped_fns, globals, cls_init, storage, pushedBy,
                   applied, annotations, hook, attrs>>

----------------------------------------------------------------------------
(* wrapped_fn: the closure jaxtyped returns *)

\* try: memo_stack = storage.memo_stack / except AttributeError: ... = []
\* memo_stack.append(({}, {}, {}))
WrappedPush(t) ==
    /\ Running(t, "wrapped_fn")
    /\ Top(t).pc = "entry"
    /\ storage' = [storage EXCEPT ![Slot(t)] =
            [has |-> TRUE,
             memo_stack |-> Append(@.memo_stack, NewContext(@.memo_stack))]]
    /\ pushedBy' = [pushedBy EXCEPT ![Slot(t)] =
            [created |-> IF storage[Slot(t)].has THEN @.created ELSE t,
             pushed |-> Append(@.pushed, t)]]
    /\ frames' = Goto(t, "pushed")
    /\ UNCHANGED <<fns, jaxtyped_fns, globals, cls_init, ret, exited, objs, applied, annotations, hook, attrs>>

\* try: return fn(*args, **kwargs): the call
WrappedCall(t) ==
    /\ Running(t, "wrapped_fn")
    /\ Top(t).pc = "pushed"
    /\ frames' = PushAt(t, "called",
                        Frame(fns[Top(t).fid].fn, Top(t).self, Top(t).typechecker,
                              FALSE, MemoStack(t)))
    /\ UNCHANGED <<fns, jaxtyped_fns, globals, cls_init, storage, pushedBy,
                   ret, exited, objs, applied, annotations, hook, attrs>>

\* finally: memo_stack.pop(), then the return or the propagation; a pop
\* from an empty list raises IndexError in place of the outcome
WrappedExit(t) ==
    /\ Running(t, "wrapped_fn")
    /\ Top(t).pc = "called"
    /\ ret[t] # NoRet
    /\ storage' = [storage EXCEPT ![Slot(t)].memo_stack = PopOnExit(@, ret[t])]
    /\ pushedBy' = [pushedBy EXCEPT ![Slot(t)].pushed = Front(@)]
    /\ LET outcome == IF MemoStack(t) = <<>> THEN Raised("IndexError")
                      ELSE WrappedOutcome(ret[t]) IN
        /\ ret' = [ret EXCEPT ![t] = outcome]
        /\ objs' = Finished(t, outcome)
    /\ exited' = [exited EXCEPT ![t] = Exit(t)]
    /\ frames' = Pop(t)
    /\ UNCHANGED <<fns, jaxtyped_fns, globals, cls_init, applied, annotations, hook, attrs>>

----------------------------------------------------------------------------
(* User code: the bodies of f and g, and the code at the top level of a    *)
(* thread.  A body may check shapes, call f or g, return or raise; when a  *)
(* call it made raises, it may catch the error or let it propagate.        *)

\* the call n(...)
Call(t, n) ==
    /\ AtTopLevel(t) \/ InBody(t)
    /\ UserDepth(t) < MaxDepth
    /\ frames' = Push(t, Frame(globals[n], 0, "none", FALSE, MemoStack(t)))
    /\ ret' = [ret EXCEPT ![t] = NoRet]
    /\ exited' = [exited EXCEPT ![t] = NoFrame]
    /\ objs' = [objs EXCEPT ![t] = <<>>]
    /\ UNCHANGED <<fns, jaxtyped_fns, globals, cls_init, storage, pushedBy, applied, annotations, hook, attrs>>

\* isinstance(x, Float[Array, "a"]) for an x of size s
IsInstance(t, a, s) ==
    /\ InBody(t)
    /\ storage' = [storage EXCEPT ![Slot(t)].memo_stack = Checked(@, a, s).stack]
    /\ UNCHANGED <<fns, jaxtyped_fns, globals, cls_init, pushedBy, frames,
                   ret, exited, objs, applied, annotations, hook, attrs>>

\* ok = isinstance(x, Float[Array, "n m"]) for an x of the sizes in dims
Test(t, dims) ==
    /\ InBody(t)
    /\ Len(Top(t).tests) < MaxTests
    /\ storage' = [storage EXCEPT ![Slot(t)].memo_stack = CheckedAll(@, dims).stack]
    /\ frames' = [frames EXCEPT ![t][Len(frames[t])].tests =
            Append(@, [dims |-> dims, ok |-> CheckedAll(MemoStack(t), dims).ok])]
    /\ UNCHANGED <<fns, jaxtyped_fns, globals, cls_init, pushedBy,
                   ret, exited, objs, applied, annotations, hook, attrs>>

\* return v
Return(t, v) ==
    /\ InBody(t)
    /\ frames' = Pop(t)
    /\ ret' = [ret EXCEPT ![t] = Returned(v)]
    /\ exited' = [exited EXCEPT ![t] = Exit(t)]
    /\ UNCHANGED <<fns, jaxtyped_fns, globals, cls_init, storage, pushedBy,
                   objs, applied, annotations, hook, attrs>>

\* raise e
Raise(t, e) ==
    /\ InBody(t)
    /\ frames' = Pop(t)
    /\ ret' = [ret EXCEPT ![t] = Raised(e)]
    /\ exited' = [exited EXCEPT ![t] = Exit(t)]
    /\ UNCHANGED <<fns, jaxtyped_fns, globals, cls_init, storage, pushedBy,
                   objs, applied, annotations, hook, attrs>>

\* the body goes on after a call: with the value, or having caught the error
Resume(t) ==
    /\ IsUserBody(t)
    /\ ret[t] # NoRet
    /\ ret' = [ret EXCEPT ![t] = NoRet]
    /\ exited' = [exited EXCEPT ![t] = NoFrame]
    /\ objs' = [objs EXCEPT ![t] = <<>>]
    /\ UNCHANGED <<fns, jaxtyped_fns, globals, cls_init, storage, pushedBy,
                   frames, applied, annotations, hook, attrs>>

\* the error of a call is not caught
Propagate(t) ==
    /\ IsUserBody(t)
    /\ ret[t].kind = "raise"
    /\ frames' = Pop(t)
    /\ exited' = [exited EXCEPT ![t] = Exit(t)]
    /\ UNCHANGED <<fns, jaxtyped_fns, globals, cls_init, storage, pushedBy,
                   ret, objs, applied, annotations, hook, attrs>>

----------------------------------------------------------------------------------------------------------------------------------------------------------------------------------------------------
(* Decoration of a class *)

\* faulty variant: the wrapped __init__ is not assigned to the class
NotInstalled(ci, c, init) == ci

\* fn.__init__ = init
Installed(ci, c, init) == [ci EXCEPT ![c] = init]

\* the statement at the top level of the main thread has raised e
Failed(e) ==
    /\ ret' = [t \in Threads |-> IF t = MainThread THEN Raised(e) ELSE NoRet]
    /\ exited' = [t \in Threads |-> NoFrame]
    /\ objs' = [t \in Threads |-> <<>>]

\* jaxtyped(kls) for a class: for a dataclass, init = jaxtyped(fn.__init__);
\* fn.__init__ = init; for any other class, raise ValueError
JaxtypedClass(c) ==
    /\ Quiescent
    /\ InOrder(c)
    /\ Layers(fns, LookupInit(cls_init, c)) < MaxDeco
    /\ IF IsDataclass(c)
       THEN /\ LET r == Jaxtyped(fns, jaxtyped_fns, LookupInit(cls_init, c)) IN
                /\ fns' = r.fns
                /\ jaxtyped_fns' = r.reg
                /\ cls_init' = Installed(cls_init, c, r.res)
            /\ Forget
       ELSE /\ Failed("ValueError")
            /\ UNCHANGED <<fns, jaxtyped_fns, cls_init>>
    /\ UNCHANGED <<globals, storage, pushedBy, frames, applied, annotations, hook, attrs>>

\* faulty variant: init = jaxtyped(kls.__init__)
WrappedInit(h, reg, fn) == Jaxtyped(h, reg, fn)

\* init = kls.__init__
CapturedInit(h, reg, fn) == [fns |-> h, reg |-> reg, res |-> fn]

\* _jaxtyped_typechecker(hook)(kls) for a dataclass:
\* init = kls.__init__; kls.__init__ = the new __init__
TypecheckedClass(c) ==
    /\ Quiescent
    /\ InOrder(c)
    /\ Layers(fns, LookupInit(cls_init, c)) < MaxDeco
    /\ LET r == CapturedInit(fns, jaxtyped_fns, LookupInit(cls_init, c)) IN
        /\ fns' = Append(r.fns, InitWrapper(r.fns, r.res, c, hook))
        /\ jaxtyped_fns' = r.reg
        /\ cls_init' = [cls_init EXCEPT ![c] = Len(r.fns) + 1]
    /\ Forget
    /\ UNCHANGED <<globals, storage, pushedBy, frames, applied,
                   annotations, hook, attrs>>

----------------------------------------------------------------------------
(* Construction of an instance: kls(...) creates the object and calls      *)
(* type(self).__init__(self, ...)                                          *)

Construct(t, c) ==
    /\ AtTopLevel(t) \/ InBody(t)
    /\ objs' = [objs EXCEPT ![t] = <<NewInstance(c)>>]
    /\ frames' = Push(t, Frame(LookupInit(cls_init, c), 1, "none", TRUE, MemoStack(t)))
    /\ ret' = [ret EXCEPT ![t] = NoRet]
    /\ exited' = [exited EXCEPT ![t] = NoFrame]
    /\ UNCHANGED <<fns, jaxtyped_fns, globals, cls_init, storage, pushedBy,
                   applied, annotations, hook, attrs>>

\* the top frame, called with self, exits with the given outcome
ExitWith(t, outcome) ==
    /\ frames' = Pop(t)
    /\ ret' = [ret EXCEPT ![t] = outcome]
    /\ exited' = [exited EXCEPT ![t] = Exit(t)]

\* A's dataclass-generated __init__, or a hand-written one: assigns x or
\* leaves it unset, or fails
InitA(t) ==
    /\ Running(t, "function")
    /\ TopName(t) = "A.__init__"
    /\ \/ \E v \in FieldValues :
            /\ objs' = [Finished(t, Returned("None")) EXCEPT
                    ![t][Top(t).self].dict = [f \in {"x"} |-> v],
                    ![t][Top(t).self].inited = @ \cup {"A"}]
            /\ ExitWith(t, Returned("None"))
       \/ /\ objs' = [Finished(t, Returned("None")) EXCEPT
                    ![t][Top(t).self].inited = @ \cup {"A"}]
          /\ ExitWith(t, Returned("None"))
       \/ \E e \in Errors :
            /\ objs' = Finished(t, Raised(e))
            /\ ExitWith(t, Raised(e))
    /\ UNCHANGED <<fns, jaxtyped_fns, globals, cls_init, storage, pushedBy,
                   applied, annotations, hook, attrs>>

\* B.__init__: A.__init__(self, x) ...
InitBSuper(t) ==
    /\ Running(t, "function")
    /\ TopName(t) = "B.__init__"
    /\ Top(t).pc = "entry"
    /\ frames' = PushAt(t, "super",
                        Frame(LookupInit(cls_init, "A"), Top(t).self, "none", FALSE,
                              MemoStack(t)))
    /\ UNCHANGED <<fns, jaxtyped_fns, globals, cls_init, storage, pushedBy,
                   ret, exited, objs, applied, annotations, hook, attrs>>

\* ... then self.y = y (or y is left unset); an error of A.__init__ propagates
InitBAssign(t) ==
    /\ Running(t, "function")
    /\ TopName(t) = "B.__init__"
    /\ Top(t).pc = "super"
    /\ ret[t] # NoRet
    /\ IF ret[t].kind = "raise"
       THEN /\ objs' = Finished(t, ret[t])
            /\ ExitWith(t, ret[t])
       ELSE /\ \/ \E v \in FieldValues :
                    objs' = [Finished(t, Returned("None")) EXCEPT
                        ![t][Top(t).self].dict =
                            [f \in DOMAIN @ \cup {"y"} |-> IF f = "y" THEN v ELSE @[f]],
                        ![t][Top(t).self].inited = @ \cup {"B"}]
               \/ objs' = [Finished(t, Returned("None")) EXCEPT
                        ![t][Top(t).self].inited = @ \cup {"B"}]
            /\ ExitWith(t, Returned("None"))
    /\ UNCHANGED <<fns, jaxtyped_fns, globals, cls_init, storage, pushedBy,
                   applied, annotations, hook, attrs>>

----------------------------------------------------------------------------
(* The __init__ that _jaxtyped_typechecker installs on kls *)

\* faulty variant: every wrapper of the chain verifies (the test is missing)
AlwaysTopLevel(ci, cls, kls) == TRUE

\* self.__class__.__init__ is kls.__init__
TopLevelInit(ci, cls, kls) == LookupInit(ci, cls) = LookupInit(ci, kls)

\* init(self, *args, **kwargs)
InitWrapperCall(t) ==
    /\ Running(t, "__init__")
    /\ Top(t).pc = "entry"
    /\ frames' = PushAt(t, "init",
                        Frame(fns[Top(t).fid].fn, Top(t).self, "none", FALSE,
                              MemoStack(t)))
    /\ UNCHANGED <<fns, jaxtyped_fns, globals, cls_init, storage, pushedBy,
                   ret, exited, objs, applied, annotations, hook, attrs>>

\* init has returned: if ...: _check_dataclass_annotations(self, typechecker);
\* init has raised: the error propagates
InitWrapperVerify(t) ==
    /\ Running(t, "__init__")
    /\ Top(t).pc = "init"
    /\ ret[t] # NoRet
    /\ IF ret[t].kind = "raise"
       THEN /\ objs' = Finished(t, ret[t])
            /\ ExitWith(t, ret[t])
       ELSE IF TopLevelInit(cls_init, Self(t).cls, fns[Top(t).fid].kls)
       THEN /\ frames' = PushAt(t, "check",
                    Frame(globals["_check_dataclass_annotations"], Top(t).self,
                          fns[Top(t).fid].typechecker, FALSE, MemoStack(t)))
            /\ ret' = [ret EXCEPT ![t] = NoRet]
            /\ exited' = [exited EXCEPT ![t] = NoFrame]
            /\ UNCHANGED objs
       ELSE /\ objs' = Finished(t, Returned("None"))
            /\ ExitWith(t, Returned("None"))
    /\ UNCHANGED <<fns, jaxtyped_fns, globals, cls_init, storage, pushedBy,
                   applied, annotations, hook, attrs>>

\* _check_dataclass_annotations has returned or raised: __init__ ends
InitWrapperExit(t) ==
    /\ Running(t, "__init__")
    /\ Top(t).pc = "check"
    /\ ret[t] # NoRet
    /\ LET outcome == IF ret[t].kind = "raise" THEN ret[t] ELSE Returned("None") IN
        /\ objs' = Finished(t, outcome)
        /\ ExitWith(t, outcome)
    /\ UNCHANGED <<fns, jaxtyped_fns, globals, cls_init, storage, pushedBy,
                   applied, annotations, hook, attrs>>

----------------------------------------------------------------------------
(* The body of _check_dataclass_annotations(self, typechecker) *)

\* the capability applied to def typecheck(name: annotation) and called with
\* the value: beartype's isinstance test, or the identity for None
TypeCheck(typechecker, annotation, value, stack) ==
    IF typechecker = "None" THEN [ok |-> TRUE, stack |-> stack]
    ELSE IF annotation.kind = "shape"
    THEN IF value.kind = "array"
         THEN Checked(stack, annotation.axis, value.size)
         ELSE [ok |-> FALSE, stack |-> stack]
    ELSE [ok |-> value.kind = annotation.kind, stack |-> stack]

InCheckBody(t) ==
    /\ Running(t, "function")
    /\ TopName(t) = "_check_dataclass_annotations"

NextField(t) == [frames EXCEPT ![t][Len(frames[t])].i = @ + 1]

\* the history of a pass: it starts with the first field, and lists the
\* fields the loop has reached, what the annotation lookup gave for each,
\* and the fields the typechecker was called for
Visit(t, name, r, called) ==
    LET first == Top(t).i = 1
        hit == IF called THEN <<name>> ELSE <<>> IN
    [objs EXCEPT ![t][Top(t).self].visited = IF first THEN <<name>> ELSE Append(@, name),
                 ![t][Top(t).self].used = IF first THEN <<r>> ELSE Append(@, r),
                 ![t][Top(t).self].checked = IF first THEN hit ELSE @ \o hit,
                 ![t][Top(t).self].passes = IF first THEN @ + 1 ELSE @]

\* faulty variant: the getattr is not guarded, its AttributeError propagates
PropagateAttributeError == [do |-> "raise", error |-> "AttributeError"]

\* except AttributeError: continue
OnUninitialised == [do |-> "continue", error |-> "none"]

\* faulty variant: the error of typecheck(value) is caught, the loop goes on
IgnoreMismatch == [do |-> "continue", error |-> "none"]

\* typecheck(value) raises: nothing catches the error in the loop
OnMismatch == [do |-> "raise", error |-> "TypeCheckError"]

\* what the loop body does with a field, r being the resolved annotation:
\* raise, continue (skip the field), or call the typechecker on its value
FieldAction(r, dict, name) ==
    IF r.error # "none" THEN [do |-> "raise", error |-> r.error]
    ELSE IF Unresolvable(r.annotation) THEN [do |-> "continue", error |-> "none"]
    ELSE IF name \notin DOMAIN dict THEN OnUninitialised
    ELSE [do |-> "check", error |-> "none"]

\* one iteration of: for field in dataclasses.fields(self)
CheckField(t) ==
    /\ InCheckBody(t)
    /\ Top(t).i <= Len(Fields(Self(t).cls))
    /\ LET name == Fields(Self(t).cls)[Top(t).i]
           r == ResolveAnnotation(annotations, Self(t).cls, name)
           a == FieldAction(r, Self(t).dict, name)
           c == TypeCheck(Top(t).typechecker, r.annotation, Self(t).dict[name],
                          MemoStack(t))
       IN
        IF a.do = "raise"
        THEN /\ objs' = Visit(t, name, r, FALSE)
             /\ ExitWith(t, Raised(a.error))
             /\ UNCHANGED storage
        ELSE IF a.do = "continue"
        THEN /\ objs' = Visit(t, name, r, FALSE)
             /\ frames' = NextField(t)
             /\ UNCHANGED <<storage, ret, exited>>
        ELSE /\ objs' = Visit(t, name, r, TRUE)
             /\ IF c.ok
                THEN /\ storage' = [storage EXCEPT ![Slot(t)].memo_stack = c.stack]
                     /\ frames' = NextField(t)
                     /\ UNCHANGED <<ret, exited>>
                ELSE IF OnMismatch.do = "raise"
                THEN /\ ExitWith(t, Raised(OnMismatch.error))
                     /\ UNCHANGED storage
                ELSE /\ frames' = NextField(t)
                     /\ UNCHANGED <<storage, ret, exited>>
    /\ UNCHANGED <<fns, jaxtyped_fns, globals, cls_init, pushedBy, applied,
                   annotations, hook, attrs>>

\* the loop is over
CheckReturn(t) ==
    /\ InCheckBody(t)
    /\ Top(t).i > Len(Fields(Self(t).cls))
    /\ ExitWith(t, Returned("None"))
    /\ UNCHANGED <<fns, jaxtyped_fns, globals, cls_init, storage, pushedBy,
                   objs, applied, annotations, hook, attrs>>

----------------
(* Nested wrapped calls of f and g on one thread *)

\* a step of wrapped_fn on thread t
WrapperStep(t) ==
    \/ WrappedPush(t)
    \/ WrappedCall(t)
    \/ WrappedExit(t)

\* a step of user code on thread t, calling the functions named in N
UserStep(t, N) ==
    \/ \E n \in N : Call(t, n)
    \/ \E a \in AxisNames, s \in Sizes : IsInstance(t, a, s)
    \/ \E v \in Values : Return(t, v)
    \/ \E e \in Errors : Raise(t, e)
    \/ Resume(t)
    \/ Propagate(t)

Next ==
    \/ \E n \in FnNames : DecorateFunction(n)
    \/ WrapperStep(MainThread)
    \/ UserStep(MainThread, FnNames)

Spec == Init /\ [][Next]_vars

----------------------------------------------------------------------------
(* Wrapped calls of f on several threads at once *)

NextThreads ==
    \/ DecorateFunction("f")
    \/ \E t \in Threads : WrapperStep(t)
    \/ \E t \in Threads : UserStep(t, {"f"})

SpecThreads == Init /\ [][NextThreads]_vars

----------------------------------------------------------------------------
(* A call of f whose body tests shapes with isinstance and keeps the       *)
(* results                                                                 *)

NextTests ==
    \/ DecorateFunction("f")
    \/ WrapperStep(MainThread)
    \/ AtTopLevel(MainThread) /\ Call(MainThread, "f")
    \/ \E dims \in Tested : Test(MainThread, dims)
    \/ \E v \in Values : Return(MainThread, v)
    \/ \E e \in Errors : Raise(MainThread, e)

SpecTests == Init /\ [][NextTests]_vars

----------------------------------------------------------------------------
(* Decoration and use of the classmethod, the staticmethod and the         *)
(* property of class K, for every choice of the property's accessors       *)

InitDescriptors ==
    /\ Imported
    /\ annotations = SharedAxis
    /\ hook = "beartype"
    /\ attrs \in {ClassDict(body) : body \in ClassBodies}

NextDescriptors ==
    \/ \E k \in 1 .. Len(Descriptors) : DecorateDescriptor(k)
    \/ \E d \in DescriptorNames, a \in {"func", "fget", "fset", "fdel"} :
            Invoke(MainThread, d, a)
    \/ WrapperStep(MainThread)
    \/ \E a \in AxisNames, n \in Sizes : IsInstance(MainThread, a, n)
    \/ \E v \in Values : Return(MainThread, v)
    \/ \E e \in Errors : Raise(MainThread, e)

SpecDescriptors == InitDescriptors /\ [][NextDescriptors]_vars

----------------------------------------------------------------------------
(* Decoration and construction of the dataclasses on one thread, at top    *)
(* level or inside the body of f                                           *)

\* a step of an __init__ or of the field verification on thread t
RecordStep(t) ==
    \/ InitA(t)
    \/ InitBSuper(t)
    \/ InitBAssign(t)
    \/ InitWrapperCall(t)
    \/ InitWrapperVerify(t)
    \/ InitWrapperExit(t)
    \/ CheckField(t)
    \/ CheckReturn(t)

NextRecord ==
    \/ applied["f"] = 0 /\ DecorateFunction("f")
    \/ \E c \in Classes \cup PlainClasses : JaxtypedClass(c)
    \/ \E c \in Classes : TypecheckedClass(c)
    \/ \E c \in Classes : Construct(MainThread, c)
    \/ WrapperStep(MainThread)
    \/ AtTopLevel(MainThread) /\ Call(MainThread, "f")
    \/ UserStep(MainThread, {})
    \/ RecordStep(MainThread)

SpecRecord == InitRecord /\ [][NextRecord]_vars

----------------------------------------------------------------------------
(* The same program when the classes are decorated by the import hook's    *)
(* _jaxtyped_typechecker only, jaxtyped being applied to no class          *)

NextHook ==
    \/ applied["f"] = 0 /\ DecorateFunction("f")
    \/ \E c \in Classes : TypecheckedClass(c)
    \/ \E c \in Classes : Construct(MainThread, c)
    \/ WrapperStep(MainThread)
    \/ AtTopLevel(MainThread) /\ Call(MainThread, "f")
    \/ UserStep(MainThread, {})
    \/ RecordStep(MainThread)

SpecHook == InitRecord /\ [][NextHook]_vars

----------------------------------------------------------------------------
(* Verification of the fields under every declaration of annotations: the  *)
(* import hook decorates the classes, and instances are constructed at top *)
(* level                                                                   *)

InitFields ==
    Imported /\ annotations \in Declarations /\ hook = "beartype"
        /\ attrs = GetterOnly

NextFields ==
    \/ \E c \in Classes : Undecorated(c) /\ TypecheckedClass(c)
    \/ \E c \in Classes : Construct(MainThread, c)
    \/ WrapperStep(MainThread)
    \/ RecordStep(MainThread)

SpecFields == InitFields /\ [][NextFields]_vars

----------------------------------------------------------------------------
(* Properties *)

IsWrappedFn(fid) == fid # 0 /\ fns[fid].kind = "wrapped_fn"

\* a wrapped_fn has just exited on t and its outcome is still in flight
WrappedJustExited(t) == ret[t] # NoRet /\ IsWrappedFn(exited[t].fid)

Binds(ctx, a, s) == a \in DOMAIN ctx[1] /\ ctx[1][a] = s

\* C1: when a wrapped call has exited, by return or by raise, whatever calls
\* were nested in it, the depth of the thread's stack is the depth it had
\* just before the call began.
Balance ==
    \A t \in Threads :
        WrappedJustExited(t) => Depth(t) = Len(exited[t].saved)

\* an outermost wrapped call has ended by raising
BalanceWitness ==
    /\ Idle(MainThread)
    /\ WrappedJustExited(MainThread)
    /\ ret[MainThread].kind = "raise"
    /\ storage[MainThread].has
    /\ exited[MainThread].saved = <<>>

\* C2: at the moment the body of a wrapped call starts, the stack is the
\* stack the call was made with plus one context on top, and that context
\* is three empty mappings.
FreshContext ==
    \A t \in Threads : \A i \in 2 .. Len(frames[t]) :
        IsWrappedFn(frames[t][i - 1].fid) =>
            frames[t][i].saved = Append(frames[t][i - 1].saved, EmptyCtx)

\* a call nested in a call that bound n to 1 has bound n to 2
FreshContextWitness ==
    /\ Depth(MainThread) = 2
    /\ Binds(MemoStack(MainThread)[1], "n", 1)
    /\ Binds(MemoStack(MainThread)[2], "n", 2)

\* C3: when a wrapped call nested in another wrapped call has exited, by
\* return or by raise, the stack, and so its top context, is exactly what
\* it was just before the nested call was entered.
OuterSurvives ==
    \A t \in Threads :
        (WrappedJustExited(t) /\ exited[t].saved # <<>>) =>
            MemoStack(t) = exited[t].saved

\* a nested wrapped call has raised under an outer context that binds n
OuterSurvivesWitness ==
    /\ WrappedJustExited(MainThread)
    /\ ret[MainThread].kind = "raise"
    /\ exited[MainThread].saved # <<>>
    /\ Binds(Last(exited[MainThread].saved), "n", 1)
    /\ Running(MainThread, "function")

\* C4: the stack of a thread exists only if that thread created it, and
\* every context on it was pushed by that thread.
ThreadIsolation ==
    \A t \in Threads :
        /\ storage[t].has <=> pushedBy[t].created = t
        /\ pushedBy[t].created \in {"none", t}
        /\ pushedBy[t].pushed = [i \in 1 .. Len(storage[t].memo_stack) |-> t]

\* two threads are inside wrapped calls at once, with different sizes for n
ThreadIsolationWitness ==
    /\ Depth("t1") = 1
    /\ Depth("t2") = 1
    /\ Binds(Last(MemoStack("t1")), "n", 1)
    /\ Binds(Last(MemoStack("t2")), "n", 2)

\* the instance thread t is constructing or has just constructed
HasInstance(t) == objs[t] # <<>>
Instance(t) == objs[t][1]

\* how many __init__ closures of _jaxtyped_typechecker wrap the def under x
RECURSIVE Typechecked(_, _)
Typechecked(h, x) ==
    IF h[x].kind = "function" THEN 0
    ELSE (IF h[x].kind = "__init__" THEN 1 ELSE 0) + Typechecked(h, h[x].fn)

\* the record-type decorator was applied to class c, once
DecoratedOnce(c) == Typechecked(fns, cls_init[c]) = 1

\* C5: with A and B(A) both given the record-type decorator, constructing a
\* B runs at most one verification pass, a pass starts only after B's own
\* __init__ has returned, exactly one has run when the constructor call
\* ends after B's __init__ returned, and a pass that completes has visited
\* the fields of A and of B.
VerifiedOnceThroughChain ==
    \A t \in Threads :
        (HasInstance(t) /\ Instance(t).cls = "B"
            /\ DecoratedOnce("A") /\ DecoratedOnce("B")) =>
            /\ Instance(t).passes <= 1
            /\ Instance(t).passes = 1 => "B" \in Instance(t).inited
            /\ (Instance(t).done # "no" /\ "B" \in Instance(t).inited) =>
                    Instance(t).passes = 1
            /\ Instance(t).done = "return" => Instance(t).visited = <<"x", "y">>

\* a B has been constructed through both decorated initializers
VerifiedOnceWitness ==
    /\ HasInstance(MainThread)
    /\ Instance(MainThread).cls = "B"
    /\ DecoratedOnce("A") /\ DecoratedOnce("B")
    /\ Instance(MainThread).done = "return"
    /\ Instance(MainThread).passes = 1
    /\ Instance(MainThread).checked = <<"x", "y">>

\* C6: however often jaxtyped was applied to a function, the name is bound
\* to one wrapped_fn around the original def, and while the body runs the
\* stack is one context deeper than when the call was made.
IdempotentWrapping ==
    /\ \A n \in FnNames :
        applied[n] >= 1 =>
            /\ IsWrappedFn(globals[n])
            /\ fns[globals[n]].fn = IdOf(Defined, n)
    /\ \A t \in Threads : \A i \in 1 .. Len(frames[t]) :
        (fns[frames[t][i].fid].kind = "function"
            /\ fns[frames[t][i].fid].name \in FnNames
            /\ applied[fns[frames[t][i].fid].name] >= 1) =>
            /\ i >= 2
            /\ IsWrappedFn(frames[t][i - 1].fid)
            /\ i >= 3 => ~IsWrappedFn(frames[t][i - 2].fid)
            /\ Len(frames[t][i].saved) = Len(frames[t][i - 1].saved) + 1

\* the body of a function that was wrapped twice runs at top level
IdempotentWrappingWitness ==
    /\ applied["f"] = 2
    /\ Len(frames[MainThread]) = 2
    /\ Running(MainThread, "function")
    /\ TopName(MainThread) = "f"
    /\ Depth(MainThread) = 1

\* C7: the outcome a wrapped_fn hands to its caller is the outcome its fn
\* handed to it, the same value or the same error, and on the failure path
\* the stack is what it was before the call.
ErrorTransparency ==
    \A t \in Threads :
        WrappedJustExited(t) =>
            /\ exited[t].got # NoRet
            /\ ret[t] = exited[t].got
            /\ ret[t].kind = "raise" => MemoStack(t) = exited[t].saved

\* the error e raised by a body has come out of its wrapper
ErrorTransparencyWitness ==
    /\ WrappedJustExited(MainThread)
    /\ ret[MainThread] = Raised("e")
    /\ fns[fns[exited[MainThread].fid].fn].kind = "function"

\* C8: an instance enters the field verification pass at most once
\* (violated: the record-type decorator applied twice to one class).
AtMostOnePass ==
    \A t \in Threads : HasInstance(t) => Instance(t).passes <= 1

\* the verifier: the def and the wrapped_fn the module binds its name to
CheckBody == IdOf(Defined, "_check_dataclass_annotations")
Verifier == globals["_check_dataclass_annotations"]

\* fields f and g of class c are declared with shapes over one axis name
SameAxis(c, f, g) ==
    LET rf == ResolveAnnotation(annotations, c, f).annotation
        rg == ResolveAnnotation(annotations, c, g).annotation IN
    rf.kind = "shape" /\ rg.kind = "shape" /\ rf.axis = rg.axis

\* C9: the field checks of a pass all run under one context, pushed empty by
\* the verifier's wrapped_fn above the stack the pass was called with and
\* popped when the pass ends; the size a checked field gave its axis name is
\* bound in it for the later fields, and no construction verified by a real
\* typechecker returns with two fields giving one axis name two sizes.
CrossFieldConsistency ==
    \A t \in Threads :
        /\ InCheckBody(t) =>
            LET caller == frames[t][Len(frames[t]) - 1] IN
            /\ Len(frames[t]) >= 2
            /\ IsWrappedFn(caller.fid)
            /\ Top(t).saved = Append(caller.saved, EmptyCtx)
            /\ Len(MemoStack(t)) = Len(Top(t).saved)
            /\ Front(MemoStack(t)) = caller.saved
            /\ (Top(t).typechecker # "None" /\ Top(t).i > 1) =>
                \A k \in 1 .. Len(Self(t).checked) :
                    LET f == Self(t).checked[k]
                        r == ResolveAnnotation(annotations, Self(t).cls, f).annotation
                    IN r.kind = "shape" =>
                            Binds(Last(MemoStack(t)), r.axis, Self(t).dict[f].size)
        /\ (ret[t] # NoRet /\ exited[t].fid = Verifier) =>
                MemoStack(t) = exited[t].saved
        /\ (HasInstance(t) /\ Instance(t).done = "return"
                /\ Instance(t).passes >= 1 /\ hook # "None") =>
                \A f \in DOMAIN Instance(t).dict, g \in DOMAIN Instance(t).dict :
                    SameAxis(Instance(t).cls, f, g) =>
                        Instance(t).dict[f].size = Instance(t).dict[g].size

\* the check of y was rejected because x had bound n to another size
CrossFieldWitness ==
    /\ HasInstance(MainThread)
    /\ Instance(MainThread).cls = "B"
    /\ Instance(MainThread).done = "raise"
    /\ ret[MainThread] = Raised("TypeCheckError")
    /\ Instance(MainThread).checked = <<"x", "y">>
    /\ "x" \in DOMAIN Instance(MainThread).dict
    /\ "y" \in DOMAIN Instance(MainThread).dict
    /\ Instance(MainThread).dict["x"] = ArrayOf(1)
    /\ Instance(MainThread).dict["y"] = ArrayOf(2)

\* C10: in a pass the typechecker is called only for fields the instance has
\* a value for; a field without a value does not end the loop, which goes
\* on with the next field, and no error comes out of the pass at such a
\* field.
UnsetFieldSkipped ==
    \A t \in Threads :
        /\ (HasInstance(t) /\ Instance(t).passes >= 1) =>
                \A k \in 1 .. Len(Instance(t).checked) :
                    Instance(t).checked[k] \in DOMAIN Instance(t).dict
        /\ (InCheckBody(t) /\ Top(t).i > 1) =>
                Self(t).visited = SubSeq(Fields(Self(t).cls), 1, Top(t).i - 1)
        /\ (ret[t].kind = "raise" /\ exited[t].fid = CheckBody) =>
                Last(Instance(t).visited) \in DOMAIN Instance(t).dict

\* a B whose x was left unset has been verified: y alone was checked
UnsetFieldWitness ==
    /\ HasInstance(MainThread)
    /\ Instance(MainThread).cls = "B"
    /\ Instance(MainThread).done = "return"
    /\ Instance(MainThread).passes = 1
    /\ "x" \notin DOMAIN Instance(MainThread).dict
    /\ "y" \in DOMAIN Instance(MainThread).dict
    /\ Instance(MainThread).visited = <<"x", "y">>
    /\ Instance(MainThread).checked = <<"y">>

\* the names in a sequence
Range(seq) == {seq[k] : k \in 1 .. Len(seq)}

NotADataclass ==
    [][\A c \in PlainClasses :
        JaxtypedClass(c) =>
            /\ ret'[MainThread] = Raised("ValueError")
            /\ UNCHANGED <<cls_init, jaxtyped_fns, fns, globals, storage>>]_vars

\* jaxtyped(P) has failed in a program that had wrapped f and A.__init__
\* and whose main thread had created its stack
NotADataclassWitness ==
    /\ Quiescent
    /\ ret[MainThread] = Raised("ValueError")
    /\ storage[MainThread].has
    /\ applied["f"] = 1
    /\ IsWrappedFn(cls_init["A"])
    /\ cls_init["P"] = IdOf(Defined, "P.__init__")

\* y is x or one of the functions under the wrappers of x
RECURSIVE Wraps(_, _, _)
Wraps(h, x, y) == x = y \/ (h[x].kind # "function" /\ Wraps(h, h[x].fn, y))

\* jaxtyped was applied to the class of the instance: a wrapped_fn is among
\* the layers of its __init__
JaxtypedInit(h, x) == \E y \in 1 .. Len(h) : h[y].kind = "wrapped_fn" /\ Wraps(h, x, y)

\* C13 as stated: after jaxtyped was applied to its dataclass, a construction
\* that returns has verified the fields of the instance (violated: jaxtyped
\* alone wraps __init__ and verifies nothing).
JaxtypedClassVerifies ==
    \A t \in Threads :
        (HasInstance(t) /\ Instance(t).done = "return"
            /\ JaxtypedInit(fns, cls_init[Instance(t).cls])) =>
            Instance(t).passes >= 1

\* C13, amended: jaxtyped applied to a dataclass changes the class in place,
\* its __init__ becoming a wrapped_fn over the __init__ it had, so that every
\* layer ever installed stays under the class's __init__; a construction
\* runs the __init__ under the wrapped_fn with the same self, above a new
\* empty context; and the fields are verified exactly when
\* _jaxtyped_typechecker had been applied to the class of the instance.
JaxtypedClassWrapsInit ==
    /\ \A c \in Classes : \A y \in 1 .. Len(fns) :
            fns[y].name = c \o ".__init__" => Wraps(fns, cls_init[c], y)
    /\ \A t \in Threads : \A i \in 1 .. Len(frames[t]) - 1 :
            (IsWrappedFn(frames[t][i].fid) /\ frames[t][i].ctor) =>
                /\ frames[t][i].fid = cls_init[Instance(t).cls]
                /\ frames[t][i + 1].fid = fns[frames[t][i].fid].fn
                /\ frames[t][i + 1].self = frames[t][i].self
                /\ frames[t][i + 1].saved = Append(frames[t][i].saved, EmptyCtx)
    /\ \A t \in Threads :
            (HasInstance(t) /\ Instance(t).done = "return") =>
                (Instance(t).passes >= 1 <=>
                    Typechecked(fns, cls_init[Instance(t).cls]) >= 1)

\* an A was constructed after jaxtyped was applied to A above the hook's
\* decorator: __init__ ran under the wrapped_fn and x was verified
JaxtypedClassWitness ==
    /\ HasInstance(MainThread)
    /\ Instance(MainThread).cls = "A"
    /\ Instance(MainThread).done = "return"
    /\ IsWrappedFn(cls_init["A"])
    /\ fns[fns[cls_init["A"]].fn].kind = "__init__"
    /\ exited[MainThread].fid = cls_init["A"]
    /\ Instance(MainThread).passes = 1
    /\ Instance(MainThread).checked = <<"x">>

\* the name-size pairs of a context, and those of the tests that passed
Pairs(ctx) == {Dim(a, ctx[1][a]) : a \in DOMAIN ctx[1]}
Passed(tests) ==
    UNION {Range(tests[k].dims) : k \in {j \in 1 .. Len(tests) : tests[j].ok}}
Agree(dims, pairs) ==
    \A d \in Range(dims), q \in pairs : d.axis = q.axis => d.size = q.size

\* C14: in the body of a wrapped call, the pairs of the context are those
\* it had when the body started and those of the tests that passed, a test
\* that failed having added none; and a test fails only if it disagrees
\* with the pairs the context started with or with a test that passed
\* before it, never with one that failed.
FailedCheckLeavesNoTrace ==
    \A t \in Threads :
        (InBody(t) /\ Top(t).saved # <<>>) =>
            LET tests == Top(t).tests
                start == Pairs(Last(Top(t).saved)) IN
            /\ Pairs(Last(MemoStack(t))) = start \cup Passed(tests)
            /\ \A k \in 1 .. Len(tests) :
                    tests[k].ok <=>
                        Agree(tests[k].dims, start \cup Passed(SubSeq(tests, 1, k - 1)))

\* with m bound to 1, a test of "n m" with sizes 2 and 2 has failed, and a
\* later test of "n" with size 1 has passed
FailedCheckWitness ==
    /\ InBody(MainThread)
    /\ Top(MainThread).tests =
            << [dims |-> <<Dim("m", 1)>>, ok |-> TRUE],
               [dims |-> <<Dim("n", 2), Dim("m", 2)>>, ok |-> FALSE],
               [dims |-> <<Dim("n", 1)>>, ok |-> TRUE] >>
    /\ Pairs(Last(MemoStack(MainThread))) = {Dim("m", 1), Dim("n", 1)}

\* the wrapped calls executing on t: the activations of a wrapped_fn that
\* have pushed their context (line 129) and not yet popped it (line 133)
Active(t) ==
    {i \in 1 .. Len(frames[t]) :
        IsWrappedFn(frames[t][i].fid) /\ frames[t][i].pc # "entry"}

\* C15: on every thread the stack has one context for each wrapped call
\* executing there, so it is empty when there is none; a wrapped_fn that
\* is about to pop finds its list non-empty, and no IndexError ever comes
\* out of a call.
DepthInvariant ==
    \A t \in Threads :
        /\ Depth(t) = Cardinality(Active(t))
        /\ Active(t) # {} => storage[t].has
        /\ (Running(t, "wrapped_fn") /\ Top(t).pc = "called") => MemoStack(t) # <<>>
        /\ ret[t] # Raised("IndexError")

\* one thread is two wrapped calls deep while the other, which has made
\* wrapped calls before, is outside any
DepthWitness ==
    /\ Cardinality(Active("t1")) = 2
    /\ Depth("t1") = 2
    /\ Idle("t2")
    /\ storage["t2"].has
    /\ Depth("t2") = 0

\* the functions descriptor d holds
Held(d) == {d[a] : a \in Constituents(d.kind)} \ {0}

\* C16: jaxtyped leaves the kind of a descriptor as it was, a classmethod, a
\* staticmethod or a property; a constituent is present exactly if the
\* class body gave one, and once the descriptor went through jaxtyped each
\* one present is a wrapped_fn over the function the body gave; a
\* function that runs without a wrapped_fn under it was called through a
\* descriptor that did not go through jaxtyped; a body called through a
\* wrapped_fn runs one context deeper than the call, and the depth is
\* back when the wrapped_fn has exited.
ShapePreservingDispatch ==
    /\ \A d \in DescriptorNames :
        LET cur == attrs[d].cur
            def == attrs[d].def IN
        /\ cur.kind = def.kind
        /\ \A a \in {"func", "fget", "fset", "fdel"} :
            /\ cur[a] = 0 <=> def[a] = 0
            /\ (attrs[d].applied = 0 /\ cur[a] # 0) => cur[a] = def[a]
            /\ (attrs[d].applied >= 1 /\ cur[a] # 0) =>
                    IsWrappedFn(cur[a]) /\ fns[cur[a]].fn = def[a]
    /\ \A t \in Threads :
        /\ (~Idle(t) /\ ~IsWrappedFn(frames[t][1].fid)) =>
                \E d \in DescriptorNames :
                    attrs[d].applied = 0 /\ frames[t][1].fid \in Held(attrs[d].cur)
        /\ \A i \in 2 .. Len(frames[t]) :
                /\ IsWrappedFn(frames[t][i - 1].fid)
                /\ Depth(t) = Len(frames[t][i - 1].saved) + 1
                /\ frames[t][i].saved = Append(frames[t][i - 1].saved, EmptyCtx)
        /\ WrappedJustExited(t) => Depth(t) = Len(exited[t].saved)

\* the deleter of a property without a setter runs, after jaxtyped was
\* applied to the property, one context deep
ShapePreservingWitness ==
    /\ attrs["p"].applied = 1
    /\ attrs["p"].def.fget # 0
    /\ attrs["p"].cur.fset = 0
    /\ Len(frames[MainThread]) = 2
    /\ frames[MainThread][1].fid = attrs["p"].cur.fdel
    /\ Running(MainThread, "function")
    /\ Depth(MainThread) = 1

\* the places in the __mro__ of c of the classes that declare name
Declaring(c, name) ==
    {i \in 1 .. Len(Mro(c)) :
        Mro(c)[i] # "object" /\ name \in DOMAIN annotations[Mro(c)[i]]}
MostDerived(c, name) ==
    Mro(c)[CHOOSE i \in Declaring(c, name) : \A j \in Declaring(c, name) : i <= j]

\* C17: a pass takes the fields in the order of dataclasses.fields; the
\* annotation it uses for a field is the one of the first class of the
\* __mro__ of the instance that declares the name; if none declares it, the
\* pass ends there with an error, raised from the lookup, that comes out of
\* the constructor call: that field is the last one visited and the
\* typechecker is not called for it.
AnnotationResolution ==
    \A t \in Threads :
        HasInstance(t) =>
            LET o == Instance(t) IN
            \A k \in 1 .. Len(o.visited) :
                /\ o.visited[k] = Fields(o.cls)[k]
                /\ IF Declaring(o.cls, o.visited[k]) # {}
                   THEN /\ o.used[k].error = "none"
                        /\ o.used[k].annotation =
                            annotations[MostDerived(o.cls, o.visited[k])][o.visited[k]]
                   ELSE /\ o.used[k].error \in {"AttributeError", "TypeError"}
                        /\ k = Len(o.visited)
                        /\ o.visited[k] \notin Range(o.checked)
                        /\ ret[t] = Raised(o.used[k].error)
                        /\ ~InCheckBody(t)

\* a pass over a B has used B's own annotation of x, int, not the string A
\* declares, and has failed at y, which no class declares
AnnotationResolutionWitness ==
    /\ HasInstance(MainThread)
    /\ Instance(MainThread).cls = "B"
    /\ annotations["A"] = [f \in {"x"} |-> Stringified]
    /\ annotations["B"] = [f \in {"x"} |-> PlainInt]
    /\ Instance(MainThread).visited = <<"x", "y">>
    /\ Instance(MainThread).used[1].annotation = PlainInt
    /\ Instance(MainThread).checked = <<"x">>
    /\ Instance(MainThread).used[2].error # "none"
    /\ Instance(MainThread).done = "raise"

\* the activations made by constructor expressions on t
Constructions(t) == {i \in 1 .. Len(frames[t]) : frames[t][i].ctor}

\* the value of field f of instance o does not fit what the fields checked
\* before it, in the order given, have bound: it is no array, or a field
\* declared with the same axis name has another size
Misfit(o, before, f) ==
    \/ o.dict[f].kind # "array"
    \/ \E g \in Range(before) :
            /\ SameAxis(o.cls, f, g)
            /\ o.dict[g].kind = "array"
            /\ o.dict[g].size # o.dict[f].size

\* C18: while an instance is being constructed, and when its constructor
\* call has ended, the contexts the thread had at the constructor call are
\* on its stack as they were; and a pass rejects a field declared with a
\* shape only for what the instance's own fields hold, whatever the
\* enclosing context binds.
CallerScopeUntouched ==
    \A t \in Threads :
        /\ \A i \in Constructions(t) :
                /\ Depth(t) >= Len(frames[t][i].saved)
                /\ SubSeq(MemoStack(t), 1, Len(frames[t][i].saved)) = frames[t][i].saved
        /\ (HasInstance(t) /\ Instance(t).done # "no" /\ ret[t] # NoRet
                /\ exited[t].fid = cls_init[Instance(t).cls]) =>
                MemoStack(t) = exited[t].saved
        /\ (HasInstance(t) /\ ret[t] = Raised("TypeCheckError")
                /\ Instance(t).checked # <<>>) =>
                LET o == Instance(t)
                    f == Last(o.checked) IN
                ResolveAnnotation(annotations, o.cls, f).annotation.kind = "shape" =>
                    Misfit(o, Front(o.checked), f)

\* in the body of a wrapped f that has bound n to 1, an A whose x has size 2
\* was constructed and verified by the typechecker, and the context of f
\* still binds n to 1 and nothing else
CallerScopeWitness ==
    /\ IsUserBody(MainThread)
    /\ Depth(MainThread) = 1
    /\ Pairs(Last(MemoStack(MainThread))) = {Dim("n", 1)}
    /\ HasInstance(MainThread)
    /\ Instance(MainThread).done = "return"
    /\ hook = "beartype"
    /\ Instance(MainThread).checked = <<"x">>
    /\ Instance(MainThread).dict["x"] = ArrayOf(2)

\* C19: when the typechecker has raised for a field, that field is the
\* last one the pass visited and the last one checked, and the body of the
\* verifier is gone; the error is what comes out of the wrapped_fn of the
\* verifier, with the stack as it was before the pass, and out of the
\* constructor call, with the stack as it was before the construction;
\* and no construction verified by a real typechecker returns with a
\* field the typechecker rejects.
MismatchEndsPass ==
    \A t \in Threads :
        HasInstance(t) =>
            LET o == Instance(t) IN
            /\ ret[t] = Raised("TypeCheckError") =>
                /\ o.checked # <<>>
                /\ Last(o.visited) = Last(o.checked)
                /\ o.visited = SubSeq(Fields(o.cls), 1, Len(o.visited))
                /\ ~InCheckBody(t)
                /\ exited[t].fid # CheckBody => exited[t].got = ret[t]
                /\ exited[t].fid = Verifier => MemoStack(t) = exited[t].saved
            /\ (o.passes >= 1 /\ o.done = "raise") =>
                /\ ret[t] = Raised("TypeCheckError")
                /\ exited[t].fid = cls_init[o.cls] => MemoStack(t) = exited[t].saved
            /\ (o.passes >= 1 /\ o.done = "return" /\ hook # "None") =>
                \A k \in 1 .. Len(o.checked) :
                    ~Misfit(o, SubSeq(o.checked, 1, k - 1), o.checked[k])

\* the construction of a B at top level has ended with the error the
\* typechecker raised for x: y, which has a value, was not reached, and the
\* stack the pass had created is empty again
MismatchWitness ==
    /\ Idle(MainThread)
    /\ HasInstance(MainThread)
    /\ Instance(MainThread).cls = "B"
    /\ Instance(MainThread).done = "raise"
    /\ ret[MainThread] = Raised("TypeCheckError")
    /\ Instance(MainThread).visited = <<"x">>
    /\ Instance(MainThread).checked = <<"x">>
    /\ "y" \in DOMAIN Instance(MainThread).dict
    /\ storage[MainThread].has
    /\ Depth(MainThread) = 0

\* frame i of t runs an __init__: a def of a class or a closure installed
\* by _jaxtyped_typechecker
InInit(t, i) ==
    \E c \in Classes : fns[frames[t][i].fid].name = c \o ".__init__"

\* the wrapped_fn of the verifier is between its push and its pop on t
Verifying(t) ==
    \E j \in Active(t) : fns[frames[t][j].fid].name = "_check_dataclass_annotations"

\* C20: with _jaxtyped_typechecker alone on the classes, every __init__ of
\* a construction, the closures and the original ones, is called with the
\* stack the constructor call was made with, and while one of them is
\* running the stack is still that one; in all of the construction the
\* stack is that one with one more context exactly while the verifier is
\* between its push and its pop.
NoContextAroundInit ==
    \A t \in Threads : \A i \in Constructions(t) :
        LET base == frames[t][i].saved IN
        /\ \A j \in i .. Len(frames[t]) :
                InInit(t, j) => frames[t][j].saved = base
        /\ InInit(t, Len(frames[t])) => MemoStack(t) = base
        /\ Verifying(t) =>
                Depth(t) = Len(base) + 1 /\ Front(MemoStack(t)) = base
        /\ ~Verifying(t) => MemoStack(t) = base

\* in the body of a wrapped f that has bound n to 1, the __init__ A defines
\* runs under the closure of _jaxtyped_typechecker with the context of f on
\* top of the stack
NoContextWitness ==
    /\ Len(frames[MainThread]) = 4
    /\ frames[MainThread][3].ctor
    /\ fns[frames[MainThread][3].fid].kind = "__init__"
    /\ Running(MainThread, "function")
    /\ TopName(MainThread) = "A.__init__"
    /\ Depth(MainThread) = 1
    /\ Pairs(Last(MemoStack(MainThread))) = {Dim("n", 1)}

====
